---- MODULE Spec2Model ----
(***************************************************************************)
(* unplugin-electron-ipc: the build-time transform of *.main.ipc.* and     *)
(* *.renderer.ipc.* files (packages/unplugin-electron-ipc/src/index.ts).   *)
(*                                                                         *)
(* A source text is a sequence of tokens.  One token stands for one piece  *)
(* of text the transform never looks inside: a comment, a run of white     *)
(* space, a whole function declaration from its first modifier to its      *)
(* closing brace, the head `export const f =` of a variable statement, an  *)
(* initializer, an import declaration.  Offsets count tokens: the token at *)
(* index i (1-based) covers the offsets [i-1, i).                          *)
(***************************************************************************)
EXTENDS Integers, Sequences, FiniteSets, TLC

VARIABLES
    id,       \* the path of the file being compiled
    source,   \* its text
    out,      \* what transform returned for it, per processing context
    built,    \* the files compiled before it, each with the channels it was given
    electronImportsNeeded,   \* the electron symbols of a merge applied on its own
    merges,   \* how often that merge has been applied to the text
    surfaces, \* the open renderer surfaces (webContents) of the running application
    loaded,   \* per context, whether its processes have loaded the compiled module
    net,      \* the IPC messages in flight
    promise,  \* what the caller of the stub has observed
    once,     \* the surfaces whose wc.once reply listener is still attached
    resolved, \* the broadcaster's `resolved` flag
    thrown    \* the errors the original function has thrown, and what the listener made of them

runVars == <<surfaces, loaded, net, promise, once, resolved, thrown>>

vars == <<id, source, out, built, electronImportsNeeded, merges, runVars>>

\* The most renderer surfaces open at once.
MaxSurfaces == 2

\* The longest file, in statements.
MaxStmts == 3

\* The files of one build: a file and its later versions and copies.
MaxFiles == 2

\* How often the import merge is applied to a text.
MaxMerges == 3

Contexts == {"main", "renderer"}

(***************************************************************************)
(* File ids.  A path is a directory and a base name; the base name is the  *)
(* sequence of its dot-separated parts.                                    *)
(***************************************************************************)
Dirs == {"src/a", "src/b"}

Bases == { <<"x", "main", "ipc", "ts">>,
           <<"x", "renderer", "ipc", "js">>,
           <<"x", "ipc", "ts">> }

Ids == [dir : Dirs, base : Bases]

\* path.basename(id)
basename(i) == i.base

\* /\.ipc\.(t|j)s$/
IsIpcFile(i) ==
    LET b == i.base n == Len(i.base)
    IN  n >= 3 /\ b[n - 1] = "ipc" /\ b[n] \in {"ts", "js"}

\* /\.main\.ipc\.(t|j)s$/
isMainIpcFile(i) ==
    LET b == i.base n == Len(i.base)
    IN  n >= 4 /\ b[n - 2] = "main" /\ b[n - 1] = "ipc" /\ b[n] \in {"ts", "js"}

\* /\.renderer\.ipc\.(t|j)s$/
isRendererIpcFile(i) ==
    LET b == i.base n == Len(i.base)
    IN  n >= 4 /\ b[n - 2] = "renderer" /\ b[n - 1] = "ipc" /\ b[n] \in {"ts", "js"}

transformInclude(context, i) ==
    IF ~IsIpcFile(i) THEN FALSE
    ELSE LET shouldTransform ==
                 \/ context = "main" /\ (isMainIpcFile(i) \/ isRendererIpcFile(i))
                 \/ context = "renderer" /\ (isMainIpcFile(i) \/ isRendererIpcFile(i))
         IN  shouldTransform

(***************************************************************************)
(* Tokens of a source text.                                                *)
(***************************************************************************)
Comment == [k |-> "comment"]
Ws == [k |-> "ws"]

IsTrivia(t) == t.k \in {"comment", "ws"}

\* `export [default] [async] function [name](p1, .., pn) { body }`
FunctionTok(exported, default, name, async, body) ==
    [k |-> "function", exported |-> exported, default |-> default,
     name |-> name, async |-> async, body |-> body]

\* `export const name =`
VarHeadTok(exported, name) == [k |-> "varhead", exported |-> exported, name |-> name]

\* an initializer: an arrow function, a function expression, another expression
InitTok(kind, async, body) == [k |-> kind, async |-> async, body |-> body]

ClassTok(name) == [k |-> "class", exported |-> TRUE, name |-> name]

\* an import declaration, with the details of its spelling the merge reads
ImportTok(module, shape, def, names, quote, tight, semi) ==
    [k |-> "import", module |-> module, shape |-> shape, def |-> def,
     names |-> names, quote |-> quote, tight |-> tight, semi |-> semi]

(***************************************************************************)
(* ts.createSourceFile: the top-level statements of a text.  A node's pos  *)
(* is where the previous node ended, so the node's full span [pos, end)    *)
(* holds its leading comments and white space; getStart() skips them.  The *)
(* initializer of a variable declaration starts right after the `=`.       *)
(***************************************************************************)
\* the index of the first token at or after i that is not trivia
RECURSIVE SkipTrivia(_, _)
SkipTrivia(text, i) ==
    IF i <= Len(text) /\ IsTrivia(text[i]) THEN SkipTrivia(text, i + 1) ELSE i

RECURSIVE ParseStatements(_, _, _)
ParseStatements(text, i, pos) ==
    IF i > Len(text) THEN <<>>
    ELSE IF IsTrivia(text[i]) THEN ParseStatements(text, i + 1, pos)
    ELSE IF text[i].k = "varhead"
    THEN LET j == SkipTrivia(text, i + 1)
         IN  <<[kind |-> "VariableStatement", pos |-> pos, start |-> i - 1, end |-> j,
                tok |-> text[i],
                init |-> [pos |-> i, end |-> j, tok |-> text[j]]]>>
             \o ParseStatements(text, j + 1, j)
    ELSE <<[kind |-> CASE text[i].k = "function" -> "FunctionDeclaration"
                       [] text[i].k = "import" -> "ImportDeclaration"
                       [] text[i].k = "class" -> "ClassDeclaration"
                       [] OTHER -> "ExpressionStatement",
            pos |-> pos, start |-> i - 1, end |-> i, tok |-> text[i]]>>
         \o ParseStatements(text, i + 1, i)

createSourceFile(text) == ParseStatements(text, 1, 0)

\* source.slice(from, to)
slice(text, from, to) == SubSeq(text, from + 1, to)

(***************************************************************************)
(* createHashForText: sha256(text), hex, the first 12 digits.  The digest  *)
(* is modelled by a polynomial hash of the token codes, in a space that    *)
(* fits TLC's 32-bit integers: equal texts have equal digests, and the     *)
(* texts of this model have different digests when they differ.            *)
(***************************************************************************)
HashSpace == 2 ^ 20
HashBase == 2 ^ 10 - 15

NameCode(n) ==
    CASE n = "" -> 0 [] n = "f1" -> 1 [] n = "f2" -> 2 [] n = "f3" -> 3
      [] n = "f4" -> 4 [] OTHER -> 5

TokCode(t) ==
    CASE t.k = "comment" -> 1
      [] t.k = "ws" -> 2
      [] t.k = "function" ->
            10 + NameCode(t.name) + 6 * t.body
               + (IF t.async THEN 100 ELSE 0) + (IF t.default THEN 200 ELSE 0)
               + (IF t.exported THEN 400 ELSE 0)
      [] t.k = "arrow" -> 810 + t.body + (IF t.async THEN 20 ELSE 0)
      [] t.k = "funcexpr" -> 850 + t.body + (IF t.async THEN 20 ELSE 0)
      [] OTHER -> 900

RECURSIVE HashFrom(_, _, _)
HashFrom(text, i, h) ==
    IF i > Len(text) THEN h
    ELSE HashFrom(text, i + 1, (h * HashBase + TokCode(text[i])) % HashSpace)

createHashForText(text) == HashFrom(text, 1, 0)

(***************************************************************************)
(* visit: the exported functions of a file, in source order.               *)
(***************************************************************************)
ExportedFunction(name, start, end, isAsync, originalBodyCode, isDefault) ==
    [name |-> name, start |-> start, end |-> end, isAsync |-> isAsync,
     originalBodyCode |-> originalBodyCode, isDefault |-> isDefault]

\* what visit pushes for one node
visitNode(text, node) ==
    IF node.kind \in {"FunctionDeclaration", "VariableStatement"} /\ node.tok.exported
    THEN IF node.kind = "FunctionDeclaration"
         THEN IF node.tok.name # ""
              THEN <<ExportedFunction(node.tok.name, node.pos, node.end, node.tok.async,
                                      slice(text, node.pos, node.end), node.tok.default)>>
              ELSE <<ExportedFunction("_defaultExport", node.pos, node.end, node.tok.async,
                                      slice(text, node.pos, node.end), TRUE)>>
         ELSE IF node.init.tok.k \in {"arrow", "funcexpr"}
              THEN <<ExportedFunction(node.tok.name, node.init.pos, node.init.end,
                                      node.init.tok.async,
                                      slice(text, node.init.pos, node.init.end), FALSE)>>
              ELSE <<>>
    ELSE <<>>

RECURSIVE visitAll(_, _, _)
visitAll(text, nodes, i) ==
    IF i > Len(nodes) THEN <<>>
    ELSE visitNode(text, nodes[i]) \o visitAll(text, nodes, i + 1)

visit(text) == visitAll(text, createSourceFile(text), 1)

(***************************************************************************)
(* The channel of a function and the code generated for it (the loop body  *)
(* of transform).                                                          *)
(***************************************************************************)
\* `${baseFileName}:${isDefault ? "default" : name}:${hashed}`
Channel(i, fn) ==
    LET hashed == createHashForText(fn.originalBodyCode)
        baseFileName == basename(i)
    IN  <<baseFileName, IF fn.isDefault THEN "default" ELSE fn.name, hashed>>

\* a registration block: try { <api>(channel, (event, ...args) => ...) } catch ...
Registration(api, channel, name, async, onError) ==
    [k |-> "registration", api |-> api, channel |-> channel, name |-> name,
     async |-> async, onError |-> onError]

\* a stub: `export [async] function <name>(...args) { ... <api>(channel, ...args) ... }`
Stub(api, channel, name, async) ==
    [k |-> "stub", api |-> api, channel |-> channel, name |-> name, async |-> async]

\* GenerateFor with a slip: the main-role registration uses ipcMain.handle for a
\* sync function too.
GenerateFor_alwaysHandle(context, i, fn) ==
    LET channel == Channel(i, fn)
    IN  IF context = "main"
        THEN IF isMainIpcFile(i)
             THEN [needs |-> "ipcMain", op |-> "append",
                   content |-> Registration("ipcMain.handle", channel, fn.name, fn.isAsync,
                                            "throw")]
             ELSE [needs |-> "webContents", op |-> "overwrite",
                   content |-> Stub("webContents.send", channel, fn.name, fn.isAsync)]
        ELSE IF isRendererIpcFile(i)
             THEN [needs |-> "ipcRenderer", op |-> "append",
                   content |-> Registration("ipcRenderer.on", channel, fn.name, fn.isAsync,
                                            "reply.__ipcError")]
             ELSE [needs |-> "ipcRenderer", op |-> "overwrite",
                   content |-> IF fn.isAsync
                               THEN Stub("ipcRenderer.invoke", channel, fn.name, TRUE)
                               ELSE Stub("ipcRenderer.sendSync", channel, fn.name, FALSE)]

\* GenerateFor with a slip: the stubs name the channel after the function even
\* when it is the default export.
GenerateFor_stubIgnoresDefault(context, i, fn) ==
    LET channel == Channel(i, fn)
        stubChannel == <<channel[1], fn.name, channel[3]>>
    IN  IF context = "main"
        THEN IF isMainIpcFile(i)
             THEN [needs |-> "ipcMain", op |-> "append",
                   content |-> IF fn.isAsync
                               THEN Registration("ipcMain.handle", channel, fn.name, TRUE, "throw")
                               ELSE Registration("ipcMain.on", channel, fn.name, FALSE,
                                                 "returnValue.error")]
             ELSE [needs |-> "webContents", op |-> "overwrite",
                   content |-> Stub("webContents.send", stubChannel, fn.name, fn.isAsync)]
        ELSE IF isRendererIpcFile(i)
             THEN [needs |-> "ipcRenderer", op |-> "append",
                   content |-> Registration("ipcRenderer.on", channel, fn.name, fn.isAsync,
                                            "reply.__ipcError")]
             ELSE [needs |-> "ipcRenderer", op |-> "overwrite",
                   content |-> IF fn.isAsync
                               THEN Stub("ipcRenderer.invoke", stubChannel, fn.name, TRUE)
                               ELSE Stub("ipcRenderer.sendSync", stubChannel, fn.name, FALSE)]

\* What the loop does for one function: the edit, and the electron import it needs.
GenerateFor(context, i, fn) ==
    LET channel == Channel(i, fn)
    IN  IF context = "main"
        THEN IF isMainIpcFile(i)
             THEN [needs |-> "ipcMain", op |-> "append",
                   content |-> IF fn.isAsync
                               THEN Registration("ipcMain.handle", channel, fn.name, TRUE, "throw")
                               ELSE Registration("ipcMain.on", channel, fn.name, FALSE,
                                                 "returnValue.error")]
             ELSE [needs |-> "webContents", op |-> "overwrite",
                   content |-> Stub("webContents.send", channel, fn.name, fn.isAsync)]
        ELSE IF isRendererIpcFile(i)
             THEN [needs |-> "ipcRenderer", op |-> "append",
                   content |-> Registration("ipcRenderer.on", channel, fn.name, fn.isAsync,
                                            "reply.__ipcError")]
             ELSE [needs |-> "ipcRenderer", op |-> "overwrite",
                   content |-> IF fn.isAsync
                               THEN Stub("ipcRenderer.invoke", channel, fn.name, TRUE)
                               ELSE Stub("ipcRenderer.sendSync", channel, fn.name, FALSE)]

(***************************************************************************)
(* MagicString: the edits recorded against the original text, and the text *)
(* they produce.                                                           *)
(***************************************************************************)
NoInsert == [pos |-> -1, content |-> <<>>]

\* new MagicString(source)
MagicString == [intro |-> <<>>, outro |-> <<>>, overwrites |-> {}, insert |-> NoInsert]

overwrite(ms, start, end, content) ==
    [ms EXCEPT !.overwrites = @ \cup {[start |-> start, end |-> end, content |-> content]}]

append(ms, content) == [ms EXCEPT !.outro = @ \o content]

prepend(ms, content) == [ms EXCEPT !.intro = content \o @]

appendLeft(ms, pos, content) == [ms EXCEPT !.insert = [pos |-> pos, content |-> content]]

RECURSIVE MagicBody(_, _, _)
MagicBody(text, ms, i) ==
    IF i > Len(text) THEN <<>>
    ELSE LET over == {e \in ms.overwrites : e.start <= i - 1 /\ i - 1 < e.end}
             piece == IF over = {} THEN <<text[i]>>
                      ELSE LET e == CHOOSE e \in over : TRUE
                           IN  IF e.start = i - 1 THEN e.content ELSE <<>>
             left == IF ms.insert.pos = i THEN ms.insert.content ELSE <<>>
         IN  piece \o left \o MagicBody(text, ms, i + 1)

\* magicStr.toString()
toString(text, ms) == ms.intro \o MagicBody(text, ms, 1) \o ms.outro

(***************************************************************************)
(* Step 3 of transform: the loop over the exported functions.              *)
(***************************************************************************)
RECURSIVE applyFunctionEdits(_, _, _, _, _)
applyFunctionEdits(context, i, fns, n, ms) ==
    IF n > Len(fns) THEN ms
    ELSE LET g == GenerateFor(context, i, fns[n])
         IN  applyFunctionEdits(context, i, fns, n + 1,
                 IF g.op = "append" THEN append(ms, <<g.content>>)
                 ELSE overwrite(ms, fns[n].start, fns[n].end, <<g.content>>))

\* electronImportsNeeded, a Set: its elements in insertion order
RECURSIVE importsNeeded(_, _, _, _)
importsNeeded(context, i, fns, n) ==
    IF n = 0 THEN <<>>
    ELSE LET before == importsNeeded(context, i, fns, n - 1)
             sym == GenerateFor(context, i, fns[n]).needs
         IN  IF \E m \in 1..Len(before) : before[m] = sym THEN before
             ELSE Append(before, sym)

(***************************************************************************)
(* Step 4 of transform: insert or merge the import from "electron".        *)
(***************************************************************************)
\* `import { a, b } from 'electron'`, as the merge spells it
NamedImport(names, semi) == ImportTok("electron", "named", "", names, "'", FALSE, semi)

\* /import\s*\{\s*([^}]*)\}\s*from\s*['"]electron['"]/
curlyMatch(tok) == tok.shape = "named"

\* /import\s+(\w+)\s+from\s+['"]electron['"]/
defaultMatch(tok) == tok.shape = "default"

\* existingNames after the loop that pushes every needed name not included
RECURSIVE addMissing(_, _, _)
addMissing(existingNames, needed, n) ==
    IF n > Len(needed) THEN existingNames
    ELSE addMissing(IF \E m \in 1..Len(existingNames) : existingNames[m] = needed[n]
                    THEN existingNames
                    ELSE Append(existingNames, needed[n]),
                    needed, n + 1)

mergeImports(text, needed, ms) ==
    LET stmts == createSourceFile(text)
        importNodes == SelectSeq(stmts, LAMBDA st : st.kind = "ImportDeclaration"
                                                    /\ st.tok.module = "electron")
    IN  IF Len(importNodes) > 0
        THEN LET firstImportDecl == importNodes[1]
                 startPos == firstImportDecl.start
                 endPos == firstImportDecl.end
                 tok == firstImportDecl.tok
             IN  IF curlyMatch(tok)
                 THEN overwrite(ms, startPos, endPos,
                                <<NamedImport(addMissing(tok.names, needed, 1), tok.semi)>>)
                 ELSE IF defaultMatch(tok)
                 THEN overwrite(ms, startPos, endPos,
                                <<ImportTok("electron", "defaultNamed", tok.def, needed,
                                            "'", FALSE, tok.semi)>>)
                 ELSE appendLeft(ms, endPos, <<Ws, NamedImport(needed, TRUE)>>)
        ELSE IF Len(needed) > 0
             THEN prepend(ms, <<NamedImport(needed, TRUE), Ws>>)
             ELSE ms

(***************************************************************************)
(* transform(source, id), for a plugin created with `context`.             *)
(***************************************************************************)
Null == [status |-> "null"]
Pending == [status |-> "pending"]
Skipped == [status |-> "skipped"]

\* transform with a slip: the empty-extraction return is missing
transform_noShortCircuit(context, i, text) ==
    LET exportedFns == visit(text)
        edited == applyFunctionEdits(context, i, exportedFns, 1, MagicString)
        needed == importsNeeded(context, i, exportedFns, Len(exportedFns))
        merged == mergeImports(text, needed, edited)
    IN  [status |-> "done", code |-> toString(text, merged)]

transform(context, i, text) ==
    LET exportedFns == visit(text)
    IN  IF Len(exportedFns) = 0 THEN Null
        ELSE LET edited == applyFunctionEdits(context, i, exportedFns, 1, MagicString)
                 needed == importsNeeded(context, i, exportedFns, Len(exportedFns))
                 merged == mergeImports(text, needed, edited)
             IN  [status |-> "done", code |-> toString(text, merged)]

(***************************************************************************)
(* The files of the model.  The statement at position n declares FnNames[n] *)
(* (a module declares a name once), and a module has one default export at *)
(* most.                                                                   *)
(***************************************************************************)
FnNames == <<"f1", "f2", "f3", "f4", "f5">>

ImportOptions ==
    { <<ImportTok("electron", "named", "", <<"app">>, "\"", TRUE, FALSE)>>,
      <<ImportTok("electron", "named", "", <<"ipcMain", "ipcRenderer", "webContents">>,
                  "'", FALSE, TRUE)>>,
      <<ImportTok("electron", "default", "electron", <<>>, "'", FALSE, TRUE)>>,
      <<ImportTok("electron", "namespace", "electron", <<>>, "'", FALSE, TRUE)>>,
      <<ImportTok("fs", "default", "fs", <<>>, "'", FALSE, TRUE)>> }

FunctionOptions(name) ==
    { <<FunctionTok(TRUE, FALSE, name, FALSE, 1)>>,
      <<Comment, FunctionTok(TRUE, FALSE, name, TRUE, 1)>>,
      <<FunctionTok(TRUE, TRUE, "", FALSE, 1)>>,
      <<FunctionTok(TRUE, TRUE, name, TRUE, 1)>>,
      <<VarHeadTok(TRUE, name), Ws, InitTok("arrow", FALSE, 1)>>,
      <<VarHeadTok(TRUE, name), Ws, InitTok("funcexpr", TRUE, 1)>> }

OtherOptions(name) ==
    { <<VarHeadTok(TRUE, name), Ws, InitTok("expr", FALSE, 1)>>,
      <<ClassTok(name)>>,
      <<FunctionTok(FALSE, FALSE, name, FALSE, 1)>> }

StmtOptions(name) == ImportOptions \cup FunctionOptions(name) \cup OtherOptions(name)

DefaultExports(text) ==
    Cardinality({n \in 1..Len(text) : text[n].k = "function" /\ text[n].default})

RECURSIVE FilesOfLen(_)
FilesOfLen(n) ==
    IF n = 0 THEN {<<>>}
    ELSE {f \o st : f \in FilesOfLen(n - 1), st \in StmtOptions(FnNames[n])}

Files ==
    {f \in UNION {FilesOfLen(n) : n \in 1..MaxStmts} : DefaultExports(f) <= 1}

\* the application is not running
NoPromise == [state |-> "none"]

NotRunning ==
    /\ surfaces = {}
    /\ loaded = [c \in Contexts |-> "no"]
    /\ net = {}
    /\ promise = NoPromise
    /\ once = {}
    /\ resolved = FALSE
    /\ thrown = {}

(***************************************************************************)
(* One file of the project, compiled once by the main build's plugin and   *)
(* once by the renderer build's plugin.                                    *)
(***************************************************************************)
Init ==
    /\ id \in {i \in Ids : i.dir = "src/a"}
    /\ source \in Files
    /\ out = [c \in Contexts |-> Pending]
    /\ built = <<>>
    /\ electronImportsNeeded = <<>>
    /\ merges = 0
    /\ NotRunning

\* the bundler offers the file to the plugin, which declines it
Skip(c) ==
    /\ out[c] = Pending
    /\ ~transformInclude(c, id)
    /\ out' = [out EXCEPT ![c] = Skipped]
    /\ UNCHANGED <<id, source, built, electronImportsNeeded, merges, runVars>>

\* the bundler offers the file to the plugin, which transforms it
Transform(c) ==
    /\ out[c] = Pending
    /\ transformInclude(c, id)
    /\ out' = [out EXCEPT ![c] = transform(c, id, source)]
    /\ UNCHANGED <<id, source, built, electronImportsNeeded, merges, runVars>>

Next ==
    \/ \E c \in Contexts : Skip(c)
    \/ \E c \in Contexts : Transform(c)

Spec == Init /\ [][Next]_vars

(***************************************************************************)
(* Reading a transformed text.                                             *)
(***************************************************************************)
IsGenerated(t) == t.k \in {"registration", "stub"}

\* the generated blocks of a text, in order
Generated(code) == SelectSeq(code, IsGenerated)

\* a text without its import declarations and its free-standing white space
Declarations(code) == SelectSeq(code, LAMBDA t : t.k \notin {"import", "ws"})

Occurs(piece, text) ==
    \E p \in 0..(Len(text) - Len(piece)) : SubSeq(text, p + 1, p + Len(piece)) = piece

Done(c) == out[c].status = "done"

\* the plugin keeps the functions and registers them (otherwise it stubs them)
RegistersLocally(c) ==
    \/ c = "main" /\ isMainIpcFile(id)
    \/ c = "renderer" /\ isRendererIpcFile(id)

\* the text in which the span of fns[n] is gens[n], for every n
RECURSIVE SpansReplaced(_, _, _, _)
SpansReplaced(text, fns, gens, n) ==
    IF n > Len(text) THEN <<>>
    ELSE LET within == {m \in 1..Len(fns) : fns[m].start <= n - 1 /\ n - 1 < fns[m].end}
         IN  (IF within = {} THEN <<text[n]>>
              ELSE LET m == CHOOSE m \in within : TRUE
                   IN  IF fns[m].start = n - 1 THEN <<gens[m]>> ELSE <<>>)
             \o SpansReplaced(text, fns, gens, n + 1)

\* C1: in each of the four (context, file role) cells every exported function
\* gets that cell's shape: where the plugin registers locally the text of the
\* function is kept verbatim and one registration block for its channel is
\* appended at the end of the file, in the order of the functions; in the two
\* other cells the span of the function is replaced by a stub and nothing is
\* appended; for a main-role file an async function uses ipcMain.handle /
\* ipcRenderer.invoke and a sync function ipcMain.on / ipcRenderer.sendSync.
C1_MatrixShapes ==
    \A c \in Contexts :
        Done(c) =>
            LET fns == visit(source)
                code == out[c].code
                gens == Generated(code)
                kept == SubSeq(code, 1, Len(code) - Len(fns))
            IN  /\ Len(gens) = Len(fns)
                /\ \A n \in 1..Len(fns) :
                       /\ gens[n].channel = Channel(id, fns[n])
                       /\ gens[n].name = fns[n].name
                       /\ gens[n].async = fns[n].isAsync
                /\ IF RegistersLocally(c)
                   THEN /\ SubSeq(code, Len(code) - Len(fns) + 1, Len(code)) = gens
                        /\ \A n \in 1..Len(fns) :
                               /\ gens[n].k = "registration"
                               /\ Occurs(fns[n].originalBodyCode, kept)
                               /\ isMainIpcFile(id) =>
                                      gens[n].api = IF fns[n].isAsync THEN "ipcMain.handle"
                                                    ELSE "ipcMain.on"
                        /\ Declarations(kept) = Declarations(source)
                   ELSE /\ \A n \in 1..Len(fns) :
                               /\ gens[n].k = "stub"
                               /\ isMainIpcFile(id) =>
                                      gens[n].api = IF fns[n].isAsync THEN "ipcRenderer.invoke"
                                                    ELSE "ipcRenderer.sendSync"
                        /\ Declarations(code)
                               = Declarations(SpansReplaced(source, fns, gens, 1))

\* a main-role file with an async and a sync function, compiled in both contexts
C1_Witness ==
    /\ isMainIpcFile(id)
    /\ Done("main") /\ Done("renderer")
    /\ \E n, m \in 1..Len(visit(source)) :
           visit(source)[n].isAsync /\ ~visit(source)[m].isAsync

\* C2: for a file compiled in both contexts, the channel embedded in the main
\* context's output for an exported function is the channel embedded in the
\* renderer context's output for it.
C2_ChannelsAgree ==
    (Done("main") /\ Done("renderer")) =>
        LET m == Generated(out["main"].code)
            r == Generated(out["renderer"].code)
        IN  /\ Len(m) = Len(r)
            /\ \A n \in 1..Len(m) : m[n].name = r[n].name /\ m[n].channel = r[n].channel

\* both outputs exist, one registering and one stubbing two functions
C2_Witness ==
    /\ Done("main") /\ Done("renderer")
    /\ Len(Generated(out["main"].code)) >= 2
    /\ \E n \in 1..Len(out["main"].code) : out["main"].code[n].k = "registration"
    /\ \E n \in 1..Len(out["renderer"].code) : out["renderer"].code[n].k = "stub"

\* the text has an `export function`, an `export default function` or an
\* `export const` bound to an arrow function or a function expression
HasQualifyingExport(text) ==
    \E n \in 1..Len(text) :
        \/ text[n].k = "function" /\ text[n].exported
        \/ /\ text[n].k = "varhead" /\ text[n].exported
           /\ \E m \in (n + 1)..Len(text) :
                  /\ text[m].k \in {"arrow", "funcexpr"}
                  /\ \A j \in (n + 1)..(m - 1) : IsTrivia(text[j])

\* C10: a file without a qualifying exported function gets no result from
\* transform, in both contexts and whatever it imports: there is no output
\* text, so no edit and no import from 'electron' added or rewritten.
C10_NoExportNoResult ==
    \A c \in Contexts :
        (out[c] # Pending /\ out[c] # Skipped /\ ~HasQualifyingExport(source))
            => out[c] = Null

\* a file that imports from 'electron' and exports no function was transformed
C10_Witness ==
    /\ ~HasQualifyingExport(source)
    /\ \E n \in 1..Len(source) : source[n].k = "import" /\ source[n].module = "electron"
    /\ out["main"] = Null /\ out["renderer"] = Null

(***************************************************************************)
(* The export surface of a module text.                                    *)
(***************************************************************************)
\* `export const f =` must be followed by an expression; a stub is a declaration
SyntaxOK(text) ==
    \A n \in 1..Len(text) :
        text[n].k = "varhead" =>
            LET j == SkipTrivia(text, n + 1)
            IN  j <= Len(text) /\ text[j].k \in {"arrow", "funcexpr", "expr"}

\* the positions of a text that export a callable under the name e
CallableExports(text, e) ==
    {n \in 1..Len(text) :
        \/ /\ text[n].k = "function" /\ text[n].exported
           /\ e = IF text[n].default THEN "default" ELSE text[n].name
        \/ /\ text[n].k = "varhead" /\ text[n].exported /\ e = text[n].name
           /\ LET j == SkipTrivia(text, n + 1)
              IN  j <= Len(text) /\ text[j].k \in {"arrow", "funcexpr"}
        \/ text[n].k = "stub" /\ e = text[n].name}

\* C4: every exported function keeps its exported name in the output, in the
\* four cells and for the three declaration forms: the output is a module that
\* exports exactly one callable under the function's export name (the default
\* export for a default export).
C4_ExportSurfaceKept ==
    \A c \in Contexts :
        Done(c) =>
            /\ SyntaxOK(out[c].code)
            /\ \A n \in 1..Len(visit(source)) :
                   LET fn == visit(source)[n]
                   IN  Cardinality(CallableExports(out[c].code,
                                       IF fn.isDefault THEN "default" ELSE fn.name)) = 1

(***************************************************************************)
(* The imports of a text.                                                  *)
(***************************************************************************)
\* the import declarations from 'electron' that bind the named import sym
ElectronBindings(text, sym) ==
    {n \in 1..Len(text) :
        /\ text[n].k = "import" /\ text[n].module = "electron"
        /\ \E m \in 1..Len(text[n].names) : text[n].names[m] = sym}

Imports(text) == SelectSeq(text, LAMBDA t : t.k = "import")

\* the position of the first import from 'electron', or 0
FirstElectronImport(imports) ==
    IF \E n \in 1..Len(imports) : imports[n].module = "electron"
    THEN CHOOSE n \in 1..Len(imports) :
             /\ imports[n].module = "electron"
             /\ \A m \in 1..(n - 1) : imports[m].module # "electron"
    ELSE 0

\* the imports of a text other than the first one from 'electron'
OtherImports(text) ==
    LET imports == Imports(text)
        first == FirstElectronImport(imports)
    IN  SelectSeq([n \in 1..Len(imports) |-> [at |-> n, tok |-> imports[n]]],
                  LAMBDA e : e.at # first)

\* C5: in the output of a file with an extracted function the electron symbol
\* the generated code needs is imported exactly once, also when the file has
\* several imports from 'electron', and the imports other than the merged one
\* are the source's.
C5_NeededImportedOnce ==
    \A c \in Contexts :
        Done(c) =>
            /\ \A n \in 1..Len(visit(source)) :
                   Cardinality(ElectronBindings(out[c].code,
                                   GenerateFor(c, id, visit(source)[n]).needs)) = 1
            /\ \A n \in 1..Len(OtherImports(source)) :
                   \E m \in 1..Len(out[c].code) :
                       out[c].code[m] = OtherImports(source)[n].tok

(***************************************************************************)
(* A build over several files: after a file is compiled in both contexts   *)
(* the project gets another file, which is the compiled one with a comment *)
(* added, with a function body edited, or copied to another directory.     *)
(***************************************************************************)
\* the text of a function itself: its span without the leading trivia
OwnText(text, fn) == slice(text, SkipTrivia(text, fn.start + 1) - 1, fn.end)

\* the channels the output of context c embeds, each with the function it is for
ChannelRecords(c) ==
    IF ~Done(c) THEN {}
    ELSE {[dir |-> id.dir, base |-> basename(id),
           name |-> visit(source)[n].name, isDefault |-> visit(source)[n].isDefault,
           text |-> OwnText(source, visit(source)[n]),
           channel |-> Generated(out[c].code)[n].channel] : n \in 1..Len(visit(source))}

BuildFiles ==
    {f \in Files : /\ Len(createSourceFile(f)) <= 2
                   /\ \A n \in 1..Len(f) : f[n].k # "import"}

InitBuild ==
    /\ id \in {i \in Ids : isMainIpcFile(i) \/ isRendererIpcFile(i)}
    /\ source \in BuildFiles
    /\ out = [c \in Contexts |-> Pending]
    /\ built = <<>>
    /\ electronImportsNeeded = <<>>
    /\ merges = 0
    /\ NotRunning

\* the current file is compiled; the project gets the next one
NextFile(i, text) ==
    /\ \A c \in Contexts : out[c] # Pending
    /\ Len(built) < MaxFiles - 1
    /\ built' = Append(built, [id |-> id,
                               channels |-> UNION {ChannelRecords(c) : c \in Contexts}])
    /\ id' = i
    /\ source' = text
    /\ out' = [c \in Contexts |-> Pending]
    /\ UNCHANGED <<electronImportsNeeded, merges, runVars>>

\* a comment is written at offset p of the file
InsertComment(p) ==
    NextFile(id, SubSeq(source, 1, p) \o <<Comment>> \o SubSeq(source, p + 1, Len(source)))

\* the body of the function at token n is edited
EditBody(n) ==
    /\ source[n].k \in {"function", "arrow", "funcexpr"}
    /\ source[n].body = 1
    /\ NextFile(id, [source EXCEPT ![n].body = 2])

\* the file is copied to directory d
CopyFile(d) ==
    /\ d # id.dir
    /\ NextFile([id EXCEPT !.dir = d], source)

NextBuild ==
    \/ \E c \in Contexts : Transform(c)
    \/ \E p \in 0..(Len(source) - 1) : InsertComment(p)
    \/ \E n \in 1..Len(source) : EditBody(n)
    \/ \E d \in Dirs : CopyFile(d)

SpecBuild == InitBuild /\ [][NextBuild]_vars

\* every channel of the build, with the file and the function it was given to
AllChannelRecords ==
    UNION {built[n].channels : n \in 1..Len(built)}
        \cup UNION {ChannelRecords(c) : c \in Contexts}

\* C3: the channel of an exported function depends only on the base name of the
\* file, the export name and default-ness, and the text of the function itself:
\* two compilations that agree on the three give the same channel.
C3_ChannelOfOwnText ==
    \A r1, r2 \in AllChannelRecords :
        (r1.base = r2.base /\ r1.name = r2.name /\ r1.isDefault = r2.isDefault
            /\ r1.text = r2.text) => r1.channel = r2.channel

\* C9: two exported functions of two files with different paths never have the
\* same channel.
C9_ChannelsUniqueAcrossFiles ==
    \A r1, r2 \in AllChannelRecords :
        (r1.dir # r2.dir \/ r1.base # r2.base) => r1.channel # r2.channel

(***************************************************************************)
(* The import merge applied on its own, again and again, to a text.        *)
(***************************************************************************)
MergeFiles == {f \in Files : Len(createSourceFile(f)) <= 2}

InitMerge ==
    /\ id \in {i \in Ids : i.dir = "src/a" /\ isMainIpcFile(i)}
    /\ source \in MergeFiles
    /\ out = [c \in Contexts |-> Pending]
    /\ built = <<>>
    /\ electronImportsNeeded \in {<<"ipcMain">>, <<"ipcRenderer">>, <<"webContents">>}
    /\ merges = 0
    /\ NotRunning

MergeStep ==
    /\ merges < MaxMerges
    /\ source' = toString(source, mergeImports(source, electronImportsNeeded, MagicString))
    /\ merges' = merges + 1
    /\ UNCHANGED <<id, out, built, electronImportsNeeded, runVars>>

NextMerge == MergeStep

SpecMerge == InitMerge /\ [][NextMerge]_vars

\* C6: the import merge is idempotent: applied to the text a previous
\* application produced, with the same needed symbols, it changes nothing.
C6_MergeIdempotent == [][(merges >= 1 /\ merges' = merges + 1) => source' = source]_vars

(***************************************************************************)
(* The generated code at run time.  The main process loads the main        *)
(* build's module, every open surface the renderer build's.  The file has  *)
(* one exported function; a caller calls its stub once.  The host's IPC    *)
(* primitives do what the generated code expects of them: ipcRenderer      *)
(* .invoke settles with the outcome of the ipcMain.handle handler,         *)
(* ipcRenderer.sendSync returns event.returnValue, and a message a surface *)
(* sends on a channel reaches the listener the main process attached to    *)
(* that surface for that channel.                                          *)
(***************************************************************************)
Surfaces == 1..MaxSurfaces

\* error messages, as sequences of pieces: the empty message and another
Messages == {<<>>, <<"boom">>}

\* what a call of the original function does
Outcomes == {[t |-> "return"]} \cup {[t |-> "throw", message |-> m] : m \in Messages}

\* values that cross the process boundary
Value == [t |-> "value"]
Undefined == [t |-> "undefined"]
ErrorObject(m) == [t |-> "errorObject", error |-> m]
IpcError(m) == [t |-> "ipcError", ipcError |-> m]
Rejection(m) == [t |-> "rejection", message |-> m]

\* `${channel}-reply`
ReplyChannel(channel) == <<channel, "-reply">>

\* the generated blocks of kind k that the processes of context c have run
LoadedBlocks(c, k) ==
    IF loaded[c] = "yes"
    THEN {out[c].code[n] : n \in {m \in 1..Len(out[c].code) : out[c].code[m].k = k}}
    ELSE {}

\* the names a module text binds at its top level
BoundNames(code) ==
    {code[n].name : n \in {m \in 1..Len(code) :
                              code[m].k \in {"function", "varhead", "class", "stub"}}} \ {""}

\* `${name}(...args)` inside a registration block of the module `code`
CallOriginal(code, reg, outcome) ==
    IF reg.name \in BoundNames(code) THEN outcome
    ELSE [t |-> "throw", message |-> <<reg.name, " is not defined">>]

\* the try/catch of a registration block around a call that ended as r: where
\* the block puts its answer, and the answer
Listener(reg, r) ==
    [slot |-> CASE reg.api = "ipcMain.handle" -> "handle"
                [] reg.api = "ipcMain.on" -> "returnValue"
                [] OTHER -> "reply",
     payload |-> IF r.t = "return" THEN Value
                 ELSE CASE reg.onError = "throw" -> Rejection(r.message)
                        [] reg.onError = "returnValue.error" -> ErrorObject(r.message)
                        [] OTHER -> IpcError(r.message)]

\* what the listener's run adds to `thrown`
Thrown(at, reg, code, outcome) ==
    IF outcome.t = "throw" /\ reg.name \in BoundNames(code)
    THEN {[at |-> at, message |-> outcome.message,
           slot |-> Listener(reg, outcome).slot,
           payload |-> Listener(reg, outcome).payload]}
    ELSE {}

\* resultOrError && resultOrError.__ipcError
CarriesIpcError(payload) == payload.t = "ipcError" /\ payload.ipcError # <<>>

RunFiles == FunctionOptions(FnNames[1])

InitRun ==
    /\ id \in {i \in Ids : i.dir = "src/a" /\ (isMainIpcFile(i) \/ isRendererIpcFile(i))}
    /\ source \in RunFiles
    /\ out = [c \in Contexts |-> Pending]
    /\ built = <<>>
    /\ electronImportsNeeded = <<>>
    /\ merges = 0
    /\ surfaces \in SUBSET Surfaces
    /\ loaded = [c \in Contexts |-> "no"]
    /\ net = {}
    /\ promise = NoPromise
    /\ once = {}
    /\ resolved = FALSE
    /\ thrown = {}

buildVars == <<id, source, out, built, electronImportsNeeded, merges>>

\* the processes of context c load the module the build of c produced
LoadModule(c) ==
    /\ Done(c)
    /\ loaded[c] = "no"
    /\ loaded' = [loaded EXCEPT ![c] = IF SyntaxOK(out[c].code) THEN "yes" ELSE "failed"]
    /\ UNCHANGED <<buildVars, surfaces, net, promise, once, resolved, thrown>>

\* a surface calls the invoker stub: ipcRenderer.invoke or ipcRenderer.sendSync
CallInvoker(s) ==
    /\ promise = NoPromise
    /\ \A c \in Contexts : loaded[c] = "yes"
    /\ s \in surfaces
    /\ \E stub \in LoadedBlocks("renderer", "stub") :
           /\ net' = net \cup {[kind |-> IF stub.api = "ipcRenderer.invoke" THEN "invoke"
                                          ELSE "sendSync",
                                channel |-> stub.channel, from |-> s]}
           /\ promise' = [state |-> IF stub.async THEN "pending" ELSE "blocked"]
    /\ UNCHANGED <<buildVars, surfaces, loaded, once, resolved, thrown>>

\* the main process calls the broadcaster stub: webContents.getAllWebContents(),
\* then for an async function wc.once(reply) and, in both cases, wc.send
CallBroadcaster ==
    /\ promise = NoPromise
    /\ \A c \in Contexts : loaded[c] = "yes"
    /\ \E stub \in LoadedBlocks("main", "stub") :
           /\ net' = net \cup {[kind |-> "send", channel |-> stub.channel, to |-> wc] :
                                   wc \in surfaces}
           /\ IF stub.async
              THEN /\ once' = {[wc |-> wc, channel |-> ReplyChannel(stub.channel)] :
                                  wc \in surfaces}
                   /\ promise' = [state |-> "pending"]
              ELSE /\ once' = once
                   /\ promise' = [state |-> "returned", value |-> Undefined,
                                  from |-> "main"]
    /\ resolved' = FALSE
    /\ UNCHANGED <<buildVars, surfaces, loaded, thrown>>

\* the main process runs the ipcMain.handle handler for an invoke
HandleInvoke(outcome) ==
    \E msg \in net, reg \in LoadedBlocks("main", "registration") :
        /\ msg.kind = "invoke"
        /\ reg.api = "ipcMain.handle" /\ reg.channel = msg.channel
        /\ LET r == CallOriginal(out["main"].code, reg, outcome)
           IN  /\ net' = (net \ {msg}) \cup {[kind |-> "invokeResult", to |-> msg.from,
                                               payload |-> Listener(reg, r).payload]}
               /\ thrown' = thrown \cup Thrown("main", reg, out["main"].code, outcome)
        /\ UNCHANGED <<buildVars, surfaces, loaded, promise, once, resolved>>

\* ipcRenderer.invoke settles, and with it the invoker stub's promise: the catch
\* of the stub rethrows what invoke rejected with, which is the host's error
\* "Error invoking remote method '<channel>': Error: <message>"
InvokeSettles ==
    \E msg \in net :
        /\ msg.kind = "invokeResult"
        /\ net' = net \ {msg}
        /\ promise' = IF msg.payload.t = "rejection"
                      THEN [state |-> "rejected",
                            message |-> <<"Error invoking remote method: Error: ">>
                                            \o msg.payload.message,
                            from |-> "main", via |-> msg.payload]
                      ELSE [state |-> "resolved", value |-> msg.payload,
                            from |-> "main", via |-> msg.payload]
        /\ UNCHANGED <<buildVars, surfaces, loaded, once, resolved, thrown>>

\* the main process runs the ipcMain.on listener for a sendSync
HandleSendSync(outcome) ==
    \E msg \in net, reg \in LoadedBlocks("main", "registration") :
        /\ msg.kind = "sendSync"
        /\ reg.api = "ipcMain.on" /\ reg.channel = msg.channel
        /\ LET r == CallOriginal(out["main"].code, reg, outcome)
           IN  /\ net' = (net \ {msg}) \cup {[kind |-> "returnValue", to |-> msg.from,
                                               payload |-> Listener(reg, r).payload]}
               /\ thrown' = thrown \cup Thrown("main", reg, out["main"].code, outcome)
        /\ UNCHANGED <<buildVars, surfaces, loaded, promise, once, resolved>>

\* ipcRenderer.sendSync returns event.returnValue, and the stub returns it
SendSyncReturns ==
    \E msg \in net :
        /\ msg.kind = "returnValue"
        /\ net' = net \ {msg}
        /\ promise' = [state |-> "returned", value |-> msg.payload, from |-> "main"]
        /\ UNCHANGED <<buildVars, surfaces, loaded, once, resolved, thrown>>

\* a surface runs the ipcRenderer.on listener for a broadcast message and sends
\* its answer with event.sender.send
HandleSend(wc, outcome) ==
    \E msg \in net, reg \in LoadedBlocks("renderer", "registration") :
        /\ msg.kind = "send" /\ msg.to = wc
        /\ reg.api = "ipcRenderer.on" /\ reg.channel = msg.channel
        /\ LET r == CallOriginal(out["renderer"].code, reg, outcome)
           IN  /\ net' = (net \ {msg}) \cup {[kind |-> "reply", from |-> wc,
                                               channel |-> ReplyChannel(reg.channel),
                                               payload |-> Listener(reg, r).payload]}
               /\ thrown' = thrown \cup Thrown(wc, reg, out["renderer"].code, outcome)
        /\ UNCHANGED <<buildVars, surfaces, loaded, promise, once, resolved>>

\* a reply of surface wc reaches the main process: the wc.once listener, if one
\* is attached for the channel, runs and is detached
DeliverReply(wc) ==
    \E msg \in net :
        /\ msg.kind = "reply" /\ msg.from = wc
        /\ net' = net \ {msg}
        /\ LET listener == [wc |-> wc, channel |-> msg.channel]
           IN  IF listener \in once
               THEN /\ once' = once \ {listener}
                    /\ resolved' = TRUE
                    /\ promise' = IF resolved THEN promise
                                  ELSE IF CarriesIpcError(msg.payload)
                                  THEN [state |-> "rejected",
                                        message |-> msg.payload.ipcError,
                                        from |-> wc, via |-> msg.payload]
                                  ELSE [state |-> "resolved", value |-> msg.payload,
                                        from |-> wc, via |-> msg.payload]
               ELSE UNCHANGED <<once, resolved, promise>>
        /\ UNCHANGED <<buildVars, surfaces, loaded, thrown>>

NextRun ==
    \/ \E c \in Contexts : Transform(c)
    \/ \E c \in Contexts : LoadModule(c)
    \/ \E s \in Surfaces : CallInvoker(s)
    \/ CallBroadcaster
    \/ \E outcome \in Outcomes : HandleInvoke(outcome)
    \/ InvokeSettles
    \/ \E outcome \in Outcomes : HandleSendSync(outcome)
    \/ SendSyncReturns
    \/ \E wc \in Surfaces, outcome \in Outcomes : HandleSend(wc, outcome)
    \/ \E wc \in Surfaces : DeliverReply(wc)

SpecRun == InitRun /\ [][NextRun]_vars

\* the exported function of the running file is async
IsAsyncFile == visit(source)[1].isAsync

\* C7: on the async path, when the handler function throws an error with
\* message m, the caller of the paired stub observes a rejection with the
\* message m, relayed through a reply payload {__ipcError: m}; for both
\* pairings (ipcMain.handle with the invoker stub, ipcRenderer.on with the
\* broadcaster stub).
C7_AsyncErrorRelayed ==
    \A th \in thrown :
        (IsAsyncFile /\ promise.state \in {"resolved", "rejected"} /\ promise.from = th.at)
            => /\ promise.state = "rejected"
               /\ promise.message = th.message
               /\ promise.via = IpcError(th.message)

\* C8: in both cells that register a sync function locally, when the function
\* throws an error with message m the listener puts {error: m} in the
\* synchronous return-value slot, and the caller of the paired sync stub gets
\* an object whose error field is m, with no exception.
C8_SyncErrorReturned ==
    \A th \in thrown :
        ~IsAsyncFile
            => /\ th.slot = "returnValue"
               /\ th.payload = ErrorObject(th.message)
               /\ promise.state \in {"blocked", "returned"}
               /\ promise.state = "returned" => promise.value = ErrorObject(th.message)

\* the running file's function is reached through the async broadcaster stub
IsBroadcast == IsAsyncFile /\ isRendererIpcFile(id)

\* the promise has an outcome
Settled(p) == p.state \in {"resolved", "rejected"}

\* the outcome of a promise, without the bookkeeping of where it came from
OutcomeOf(p) ==
    CASE p.state = "rejected" -> [state |-> "rejected", message |-> p.message]
      [] p.state = "resolved" -> [state |-> "resolved", value |-> p.value]
      [] OTHER -> [state |-> p.state]

\* the outcome a reply stands for: a rejection if it carries __ipcError, a
\* resolution with the reply value otherwise
OutcomeOfReply(payload) ==
    IF payload.t = "ipcError"
    THEN [state |-> "rejected", message |-> payload.ipcError]
    ELSE [state |-> "resolved", value |-> payload]

\* the surfaces whose reply the wc.once listener of the call has received
RepliesDelivered == {wc \in surfaces : \A l \in once : l.wc # wc}

\* C11: for a call of the async broadcaster stub over the surfaces open at
\* call time, under any interleaving of the replies: the message is sent to
\* every surface, the promise settles at most once, its outcome is that of
\* the first reply delivered (a rejection if that reply carries __ipcError, a
\* resolution with the reply value otherwise), later replies leave the outcome
\* unchanged, and with no surface open the promise never settles.
C11_FirstReplyWins ==
    [][IsBroadcast =>
         /\ (promise = NoPromise /\ promise' # NoPromise)
                => \A wc \in surfaces :
                       \E msg \in net' : msg.kind = "send" /\ msg.to = wc
         /\ Settled(promise) => promise' = promise
         /\ \A msg \in net :
                (/\ msg.kind = "reply" /\ msg \notin net'
                 /\ promise # NoPromise /\ RepliesDelivered = {})
                    => OutcomeOf(promise') = OutcomeOfReply(msg.payload)
         /\ surfaces = {} => ~Settled(promise')]_vars

====
